---- MODULE Spec2Model ----
(***************************************************************************)
(* Model of examples/1.0.0/Process_the_Gene_Ontology.ipynb: one run of the *)
(* notebook, statement by statement.  The notebook's own code (the order   *)
(* of the statements, the conditional add_root, the computation of the     *)
(* translation tables and of the delete sets, the output paths and network *)
(* names) is translated from the notebook.  The ddot, pandas, requests and *)
(* mygene calls are library code that the notebook only calls; they are    *)
(* modelled from the notebook's commentary and recorded outputs.           *)
(***************************************************************************)
EXTENDS Integers, Sequences, FiniteSets, TLC

(* ------------------------------ bounds --------------------------------- *)

\* number of human gene products (UniProt IDs) in the annotation file
NumGenes == 2

\* number of GO terms below the three branch terms
NumSubTerms == 3

(* ------------------------------ data ----------------------------------- *)

SUPER == "GO:00SUPER"

BranchTerms == <<"GO:0008150", "GO:0003674", "GO:0005575">>

SubTermNames == <<"GO:0000001", "GO:0000002", "GO:0000003", "GO:0000004",
                  "GO:0000005", "GO:0000006">>

UniProtIDs == <<"P00001", "P00002", "P00003", "P00004">>

\* gene symbols and Entrez gene numbers the translation service knows: the
\* i-th is a hit of the i-th UniProt ID only, the last one a hit of several
SymbolNames == <<"SYMA", "SYMB", "SYMC", "SYMD", "SYMX">>

EntrezNumbers == <<101, 102, 103, 104, 999>>

SharedSymbol == SymbolNames[Len(SymbolNames)]

SharedEntrez == EntrezNumbers[Len(EntrezNumbers)]

Namespaces == <<"biological_process", "molecular_function", "cellular_component">>

Genes == {UniProtIDs[i] : i \in 1..NumGenes}

SubTerms == {SubTermNames[i] : i \in 1..NumSubTerms}

GOTerms == {BranchTerms[i] : i \in 1..3} \cup SubTerms

\* parent of the k-th sub-term: the first three hang under the three
\* branches, the later ones under the sub-term three places earlier
SubTermParent(k) ==
    IF k <= 3 THEN BranchTerms[k] ELSE SubTermNames[k - 3]

Namespace(t) ==
    LET k == CHOOSE j \in 1..Len(SubTermNames) \cup {-1, -2, -3} :
                 IF j < 0 THEN BranchTerms[-j] = t ELSE SubTermNames[j] = t
    IN  IF k < 0 THEN Namespaces[-k] ELSE Namespaces[((k - 1) % 3) + 1]

\* content of go-basic.obo: the [Term] stanzas with their is_a parents
OboContent ==
    [terms |-> GOTerms,
     is_a  |-> {<<SubTermNames[k], SubTermParent(k)>> : k \in 1..NumSubTerms}]

\* contents of goa_human.gaf.gz: every gene product of the file is annotated
\* to a GO term (one row per annotation)
GafChoices ==
    {{<<g, a[g]>> : g \in Genes} : a \in [Genes -> GOTerms]}

(* ------------------------- the Ontology object ------------------------- *)

EmptyOntology ==
    [genes |-> {}, terms |-> {}, gene_2_term |-> {}, child_2_parent |-> {},
     node_attr |-> {}, edge_attr |-> {}]

RECURSIVE Reach(_, _, _)
Reach(edges, frontier, seen) ==
    IF frontier = {} THEN seen
    ELSE LET nxt == {e[1] : e \in {d \in edges : d[2] \in frontier}} \ seen
         IN  Reach(edges, nxt, seen \cup nxt)

\* t and every term below it
Descendants(ont, t) == Reach(ont.child_2_parent, {t}, {t})

\* the genes a term contains, directly or through its descendant terms
term_genes(ont, t) ==
    {g \in ont.genes : \E d \in Descendants(ont, t) : <<g, d>> \in ont.gene_2_term}

get_roots(ont) ==
    {t \in ont.terms : ~ \E e \in ont.child_2_parent : e[1] = t}

add_root(ont, root_name) ==
    [ont EXCEPT !.terms = @ \cup {root_name},
                !.child_2_parent = @ \cup {<<r, root_name>> : r \in get_roots(ont)}]

\* table rows are (Parent, Child, Relation, Namespace); map rows are
\* (DB Object ID, GO ID)
from_table(table, map, add_root_name) ==
    LET terms == {e[1] : e \in table} \cup {e[2] : e \in table}
        ont   == [genes |-> {m[1] : m \in {n \in map : n[2] \in terms}},
                  terms |-> terms,
                  gene_2_term |-> {n \in map : n[2] \in terms},
                  child_2_parent |-> {<<e[2], e[1]>> : e \in table},
                  node_attr |-> {},
                  edge_attr |-> {"Relation", "Namespace"}]
    IN  IF Cardinality(get_roots(ont)) > 1 THEN add_root(ont, add_root_name)
        ELSE ont

clear_node_attr(ont) == [ont EXCEPT !.node_attr = {}]

clear_edge_attr(ont) == [ont EXCEPT !.edge_attr = {}]

update_node_attr(ont, columns) == [ont EXCEPT !.node_attr = @ \cup columns]

\* a term is dropped by the collapse when it contains no gene, or contains
\* exactly the genes of one of its child terms
is_redundant(ont, t) ==
    \/ term_genes(ont, t) = {}
    \/ \E e \in ont.child_2_parent :
          e[2] = t /\ term_genes(ont, e[1]) = term_genes(ont, t)

RECURSIVE ReachVia(_, _, _, _)
ReachVia(edges, via, frontier, seen) ==
    IF frontier = {} THEN seen
    ELSE LET ch == {e[1] : e \in {d \in edges : d[2] \in frontier}} \ seen
         IN  ReachVia(edges, via, ch \cap via, seen \cup ch)

\* removing a term connects each of its children to each of its parents
collapse_ontology(ont) ==
    LET kept  == {t \in ont.terms : ~ is_redundant(ont, t)}
        below(t) == Descendants(ont, t) \ {t}
        edges == {e \in kept \X kept :
                    e[1] \in ReachVia(ont.child_2_parent, ont.terms \ kept,
                                      {e[2]}, {})}
        g2t   == {p \in ont.genes \X kept :
                    /\ p[1] \in term_genes(ont, p[2])
                    /\ ~ \E c \in kept : /\ c \in below(p[2])
                                         /\ p[1] \in term_genes(ont, c)}
    IN  [ont EXCEPT !.terms = kept, !.child_2_parent = edges,
                    !.gene_2_term = g2t, !.edge_attr = {}]

delete(ont, to_delete) ==
    [ont EXCEPT !.genes = @ \ to_delete,
                !.gene_2_term = {p \in @ : p[1] \notin to_delete}]

\* the identifiers a translation-table entry stands for
entry_ids(v) == {v.ids[i] : i \in 1..Len(v.ids)}

rename(ont, genes) ==
    LET new(g) == IF g \in DOMAIN genes THEN entry_ids(genes[g]) ELSE {g}
    IN  [ont EXCEPT !.genes = UNION {new(g) : g \in @},
                    !.gene_2_term = UNION {new(p[1]) \X {p[2]} : p \in @}]

\* clixo format: one row (parent, child, type) per relation
to_table(ont) ==
    {<<e[2], e[1], "default">> : e \in ont.child_2_parent}
      \cup {<<p[2], p[1], "gene">> : p \in ont.gene_2_term}

(* ----------------------- parsing and translation ---------------------- *)

\* go.tab: one row (Parent, Child, Relation, Namespace) per is_a line
parse_obo_hierarchy(obo) ==
    {<<e[2], e[1], "is_a", Namespace(e[1])>> : e \in obo.is_a}

\* goID_2_name.tab and goID_2_namespace.tab: one row per term
parse_obo_names(obo) == {<<t, "name of " \o t>> : t \in obo.terms}

parse_obo_namespaces(obo) == {<<t, Namespace(t)>> : t \in obo.terms}

\* rows (DB Object ID, GO ID), duplicates dropped
parse_gaf(gaf) == gaf

\* what mygene.info answers for one UniProt ID
HitChoices == {"no hit", "one hit", "dup hits"}

\* the data frame of querymany: one row per hit, in the order of the query,
\* and one row with notfound set and no value for a query without hit
RECURSIVE querymany(_, _, _, _)
querymany(i, genes, hits, values) ==
    IF i > Len(UniProtIDs) THEN <<>>
    ELSE LET g    == UniProtIDs[i]
             one  == [query |-> g, notfound |-> FALSE,
                      value |-> <<values[Len(values)]>>]
             own  == [query |-> g, notfound |-> FALSE, value |-> <<values[i]>>]
             none == [query |-> g, notfound |-> TRUE, value |-> <<>>]
             rows == IF g \notin genes THEN <<>>
                     ELSE IF hits[g] = "no hit" THEN <<none>>
                     ELSE IF hits[g] = "one hit" THEN <<one>>
                     ELSE <<own, one>>
         IN  rows \o querymany(i + 1, genes, hits, values)

dropna(df) == SelectSeq(df, LAMBDA r : r.value # <<>>)

\* cell 20: f for the column 'symbol'
f_symbol(x) ==
    LET col == [i \in 1..Len(x) |-> x[i].value[1]]
    IN  IF Len(col) = 1 THEN [is_list |-> FALSE, ids |-> <<col[1]>>]
        ELSE [is_list |-> TRUE, ids |-> col]

\* cell 23: f for the column 'entrezgene', .astype(int).astype(str)
f_entrezgene(x) ==
    LET col == [i \in 1..Len(x) |-> ToString(x[i].value[1])]
    IN  IF Len(col) = 1 THEN [is_list |-> FALSE, ids |-> <<col[1]>>]
        ELSE [is_list |-> TRUE, ids |-> col]

groupby_query(df) ==
    [q \in {df[i].query : i \in 1..Len(df)} |->
        SelectSeq(df, LAMBDA r : r.query = q)]

uniprot_2_symbol_of(df) ==
    LET groups == groupby_query(dropna(df))
    IN  [q \in DOMAIN groups |-> f_symbol(groups[q])]

uniprot_2_entrezgene_of(df) ==
    LET groups == groupby_query(dropna(df))
    IN  [q \in DOMAIN groups |-> f_entrezgene(groups[q])]

(* ------------------------------ constants ------------------------------ *)

ndex_server == "http://test.ndexbio.org"

name == "Human-specific Gene Ontology"

network_name(scheme) == name \o ", " \o scheme

(* ------------------------------- state --------------------------------- *)

VARIABLES
    pc,                      \* the statement the run is at
    files,                   \* the local files: path -> content
    hierarchy, mapping,      \* cell 7
    go_human,                \* cells 8, 10, 12
    go_human_uniprot,        \* cell 18
    uniprot_2_symbol_df, uniprot_2_symbol,          \* cell 20
    go_human_symbol,         \* cell 21
    uniprot_2_entrezgene_df, uniprot_2_entrezgene,  \* cell 23
    go_human_entrez,         \* cell 24
    ndex,                    \* the networks uploaded to NDEx, in order
    calls                    \* the library calls made so far, in order

vars == <<pc, files, hierarchy, mapping, go_human, go_human_uniprot,
          uniprot_2_symbol_df, uniprot_2_symbol, go_human_symbol,
          uniprot_2_entrezgene_df, uniprot_2_entrezgene, go_human_entrez,
          ndex, calls>>

data == <<hierarchy, mapping>>

symbol_vars == <<uniprot_2_symbol_df, uniprot_2_symbol, go_human_symbol>>

entrez_vars == <<uniprot_2_entrezgene_df, uniprot_2_entrezgene, go_human_entrez>>

EmptyMap == [p \in {} |-> {}]

Init ==
    /\ pc = "c5_get_obo"
    /\ files = EmptyMap
    /\ hierarchy = {}
    /\ mapping = {}
    /\ go_human = EmptyOntology
    /\ go_human_uniprot = EmptyOntology
    /\ uniprot_2_symbol_df = <<>>
    /\ uniprot_2_symbol = EmptyMap
    /\ go_human_symbol = EmptyOntology
    /\ uniprot_2_entrezgene_df = <<>>
    /\ uniprot_2_entrezgene = EmptyMap
    /\ go_human_entrez = EmptyOntology
    /\ ndex = <<>>
    /\ calls = <<>>

write(path, content) == (path :> content) @@ files

Called(cs) == calls' = calls \o cs

upload(ont, scheme) ==
    Append(ndex, [name |-> network_name(scheme), ndex_server |-> ndex_server,
                  visibility |-> "PUBLIC", ont |-> ont])

(* ------------------------ cell 5: download, parse ---------------------- *)

c5_get_obo ==
    /\ pc = "c5_get_obo"
    /\ files' = write("go-basic.obo", OboContent)
    /\ Called(<<"requests.get go-basic.obo">>)
    /\ pc' = "c5_parse_obo"
    /\ UNCHANGED <<data, go_human, go_human_uniprot, symbol_vars, entrez_vars, ndex>>

c5_parse_obo ==
    /\ pc = "c5_parse_obo"
    /\ LET obo == files["go-basic.obo"]
       IN  files' = ("go.tab" :> parse_obo_hierarchy(obo))
                    @@ ("goID_2_name.tab" :> parse_obo_names(obo))
                    @@ ("goID_2_namespace.tab" :> parse_obo_namespaces(obo))
                    @@ ("goID_2_alt_id.tab" :> {})
                    @@ files
    /\ Called(<<"ddot.parse_obo">>)
    /\ pc' = "c5_get_gaf"
    /\ UNCHANGED <<data, go_human, go_human_uniprot, symbol_vars, entrez_vars, ndex>>

c5_get_gaf ==
    /\ pc = "c5_get_gaf"
    /\ \E gaf \in GafChoices : files' = write("goa_human.gaf.gz", gaf)
    /\ Called(<<"requests.get goa_human.gaf.gz">>)
    /\ pc' = "c7_read"
    /\ UNCHANGED <<data, go_human, go_human_uniprot, symbol_vars, entrez_vars, ndex>>

(* ------------------------ cell 7: read the tables ---------------------- *)

c7_read ==
    /\ pc = "c7_read"
    /\ hierarchy' = files["go.tab"]
    /\ mapping' = parse_gaf(files["goa_human.gaf.gz"])
    /\ Called(<<"pd.read_table go.tab", "ddot.parse_gaf">>)
    /\ pc' = "c8_from_table"
    /\ UNCHANGED <<files, go_human, go_human_uniprot, symbol_vars, entrez_vars, ndex>>

(* ------------------------ cell 8: build the ontology ------------------- *)

c8_from_table ==
    /\ pc = "c8_from_table"
    /\ go_human' = clear_edge_attr(clear_node_attr(
                       from_table(hierarchy, mapping, SUPER)))
    /\ Called(<<"Ontology.from_table", "clear_node_attr", "clear_edge_attr">>)
    /\ pc' = "c10_collapse"
    /\ UNCHANGED <<files, data, go_human_uniprot, symbol_vars, entrez_vars, ndex>>

(* ------------------------ cell 10: collapse ---------------------------- *)

\* the collapsed ontology is computed but not assigned to go_human
c10_collapse_unassigned ==
    /\ pc = "c10_collapse"
    /\ Called(<<"collapse_ontology">>)
    /\ pc' = "c10_add_root"
    /\ UNCHANGED <<files, data, go_human, go_human_uniprot, symbol_vars,
                   entrez_vars, ndex>>

c10_collapse ==
    /\ pc = "c10_collapse"
    /\ go_human' = collapse_ontology(go_human)
    /\ Called(<<"collapse_ontology">>)
    /\ pc' = "c10_add_root"
    /\ UNCHANGED <<files, data, go_human_uniprot, symbol_vars, entrez_vars, ndex>>

\* the root is not restored after the collapse
c10_add_root_never ==
    /\ pc = "c10_add_root"
    /\ pc' = "c12_update_node_attr"
    /\ UNCHANGED <<files, data, go_human, go_human_uniprot, symbol_vars,
                   entrez_vars, ndex, calls>>

\* add_root is called without the membership test
c10_add_root_always ==
    /\ pc = "c10_add_root"
    /\ go_human' = add_root(go_human, SUPER)
    /\ Called(<<"add_root">>)
    /\ pc' = "c12_update_node_attr"
    /\ UNCHANGED <<files, data, go_human_uniprot, symbol_vars, entrez_vars, ndex>>

c10_add_root ==
    /\ pc = "c10_add_root"
    /\ IF SUPER \notin go_human.terms
       THEN /\ go_human' = add_root(go_human, SUPER)
            /\ Called(<<"add_root">>)
       ELSE UNCHANGED <<go_human, calls>>
    /\ pc' = "c12_update_node_attr"
    /\ UNCHANGED <<files, data, go_human_uniprot, symbol_vars, entrez_vars, ndex>>

(* ------------------------ cell 12: descriptions ------------------------ *)

c12_update_node_attr ==
    /\ pc = "c12_update_node_attr"
    /\ go_human' = update_node_attr(update_node_attr(go_human,
                       {"Term_Description"}), {"Branch"})
    /\ Called(<<"pd.read_table goID_2_name.tab", "update_node_attr",
                "pd.read_table goID_2_namespace.tab", "update_node_attr">>)
    /\ pc' = "c18_to_table"
    /\ UNCHANGED <<files, data, go_human_uniprot, symbol_vars, entrez_vars, ndex>>

(* ------------------------ cell 18: UniProt variant --------------------- *)

c18_to_table ==
    /\ pc = "c18_to_table"
    /\ go_human_uniprot' = go_human
    /\ files' = write("collapsed_go.uniprot", to_table(go_human))
    /\ Called(<<"copy", "to_table">>)
    /\ pc' = "c18_to_pickle"
    /\ UNCHANGED <<data, go_human, symbol_vars, entrez_vars, ndex>>

c18_to_pickle ==
    /\ pc = "c18_to_pickle"
    /\ files' = write("collapsed_go.uniprot.pkl", go_human_uniprot)
    /\ Called(<<"to_pickle">>)
    /\ pc' = "c18_to_ndex"
    /\ UNCHANGED <<data, go_human, go_human_uniprot, symbol_vars, entrez_vars, ndex>>

c18_to_ndex ==
    /\ pc = "c18_to_ndex"
    /\ ndex' = upload(go_human_uniprot, "UniProt")
    /\ Called(<<"to_ndex">>)
    /\ pc' = "c20_querymany"
    /\ UNCHANGED <<files, data, go_human, go_human_uniprot, symbol_vars, entrez_vars>>

(* ------------------------ cells 20, 21: Symbol variant ----------------- *)

\* the Symbol variant is uploaded before it has been translated
c20_querymany_after_upload ==
    /\ pc = "c20_querymany"
    /\ ndex' = upload(go_human_symbol, "Symbol")
    /\ \E hits \in [Genes -> HitChoices] :
          uniprot_2_symbol_df' = querymany(1, go_human.genes, hits, SymbolNames)
    /\ uniprot_2_symbol' = uniprot_2_symbol_of(uniprot_2_symbol_df')
    /\ Called(<<"to_ndex", "mg.querymany symbol">>)
    /\ pc' = "c21_delete"
    /\ UNCHANGED <<files, data, go_human, go_human_uniprot, go_human_symbol,
                   entrez_vars>>

c20_querymany ==
    /\ pc = "c20_querymany"
    /\ \E hits \in [Genes -> HitChoices] :
          uniprot_2_symbol_df' = querymany(1, go_human.genes, hits, SymbolNames)
    /\ uniprot_2_symbol' = uniprot_2_symbol_of(uniprot_2_symbol_df')
    /\ Called(<<"mg.querymany symbol">>)
    /\ pc' = "c21_delete"
    /\ UNCHANGED <<files, data, go_human, go_human_uniprot, go_human_symbol,
                   entrez_vars, ndex>>

\* the operands of the set difference are exchanged
c21_delete_reversed ==
    /\ pc = "c21_delete"
    /\ go_human_symbol' = delete(go_human, DOMAIN uniprot_2_symbol \ go_human.genes)
    /\ Called(<<"delete">>)
    /\ pc' = "c21_rename"
    /\ UNCHANGED <<files, data, go_human, go_human_uniprot, uniprot_2_symbol_df,
                   uniprot_2_symbol, entrez_vars, ndex>>

c21_delete ==
    /\ pc = "c21_delete"
    /\ go_human_symbol' = delete(go_human, go_human.genes \ DOMAIN uniprot_2_symbol)
    /\ Called(<<"delete">>)
    /\ pc' = "c21_rename"
    /\ UNCHANGED <<files, data, go_human, go_human_uniprot, uniprot_2_symbol_df,
                   uniprot_2_symbol, entrez_vars, ndex>>

c21_rename ==
    /\ pc = "c21_rename"
    /\ go_human_symbol' = rename(go_human_symbol, uniprot_2_symbol)
    /\ Called(<<"rename">>)
    /\ pc' = "c21_to_table"
    /\ UNCHANGED <<files, data, go_human, go_human_uniprot, uniprot_2_symbol_df,
                   uniprot_2_symbol, entrez_vars, ndex>>

\* the Symbol table is written to the path of the UniProt table
c21_to_table_uniprot_path ==
    /\ pc = "c21_to_table"
    /\ files' = write("collapsed_go.uniprot", to_table(go_human_symbol))
    /\ Called(<<"to_table">>)
    /\ pc' = "c21_to_pickle"
    /\ UNCHANGED <<data, go_human, go_human_uniprot, symbol_vars, entrez_vars, ndex>>

c21_to_table ==
    /\ pc = "c21_to_table"
    /\ files' = write("collapsed_go.symbol", to_table(go_human_symbol))
    /\ Called(<<"to_table">>)
    /\ pc' = "c21_to_pickle"
    /\ UNCHANGED <<data, go_human, go_human_uniprot, symbol_vars, entrez_vars, ndex>>

c21_to_pickle ==
    /\ pc = "c21_to_pickle"
    /\ files' = write("collapsed_go.symbol.pkl", go_human_symbol)
    /\ Called(<<"to_pickle">>)
    /\ pc' = "c21_to_ndex"
    /\ UNCHANGED <<data, go_human, go_human_uniprot, symbol_vars, entrez_vars, ndex>>

c21_to_ndex ==
    /\ pc = "c21_to_ndex"
    /\ ndex' = upload(go_human_symbol, "Symbol")
    /\ Called(<<"to_ndex">>)
    /\ pc' = "c23_querymany"
    /\ UNCHANGED <<files, data, go_human, go_human_uniprot, symbol_vars, entrez_vars>>

(* ------------------------ cells 23, 24: Entrez variant ----------------- *)

c23_querymany ==
    /\ pc = "c23_querymany"
    /\ \E hits \in [Genes -> HitChoices] :
          uniprot_2_entrezgene_df' =
              querymany(1, go_human.genes, hits, EntrezNumbers)
    /\ uniprot_2_entrezgene' = uniprot_2_entrezgene_of(uniprot_2_entrezgene_df')
    /\ Called(<<"mg.querymany entrezgene">>)
    /\ pc' = "c24_delete"
    /\ UNCHANGED <<files, data, go_human, go_human_uniprot, symbol_vars,
                   go_human_entrez, ndex>>

c24_delete ==
    /\ pc = "c24_delete"
    /\ go_human_entrez' =
           delete(go_human, go_human.genes \ DOMAIN uniprot_2_entrezgene)
    /\ Called(<<"delete">>)
    /\ pc' = "c24_rename"
    /\ UNCHANGED <<files, data, go_human, go_human_uniprot, symbol_vars,
                   uniprot_2_entrezgene_df, uniprot_2_entrezgene, ndex>>

c24_rename ==
    /\ pc = "c24_rename"
    /\ go_human_entrez' = rename(go_human_entrez, uniprot_2_entrezgene)
    /\ Called(<<"rename">>)
    /\ pc' = "c24_to_table"
    /\ UNCHANGED <<files, data, go_human, go_human_uniprot, symbol_vars,
                   uniprot_2_entrezgene_df, uniprot_2_entrezgene, ndex>>

c24_to_table ==
    /\ pc = "c24_to_table"
    /\ files' = write("collapsed_go.entrez", to_table(go_human_entrez))
    /\ Called(<<"to_table">>)
    /\ pc' = "c24_to_pickle"
    /\ UNCHANGED <<data, go_human, go_human_uniprot, symbol_vars, entrez_vars, ndex>>

c24_to_pickle ==
    /\ pc = "c24_to_pickle"
    /\ files' = write("collapsed_go.entrez.pkl", go_human_entrez)
    /\ Called(<<"to_pickle">>)
    /\ pc' = "c24_to_ndex"
    /\ UNCHANGED <<data, go_human, go_human_uniprot, symbol_vars, entrez_vars, ndex>>

c24_to_ndex ==
    /\ pc = "c24_to_ndex"
    /\ ndex' = upload(go_human_entrez, "Entrez")
    /\ Called(<<"to_ndex">>)
    /\ pc' = "done"
    /\ UNCHANGED <<files, data, go_human, go_human_uniprot, symbol_vars, entrez_vars>>

Next ==
    \/ c5_get_obo \/ c5_parse_obo \/ c5_get_gaf
    \/ c7_read
    \/ c8_from_table
    \/ c10_collapse \/ c10_add_root
    \/ c12_update_node_attr
    \/ c18_to_table \/ c18_to_pickle \/ c18_to_ndex
    \/ c20_querymany
    \/ c21_delete \/ c21_rename \/ c21_to_table \/ c21_to_pickle \/ c21_to_ndex
    \/ c23_querymany
    \/ c24_delete \/ c24_rename \/ c24_to_table \/ c24_to_pickle \/ c24_to_ndex

Spec == Init /\ [][Next]_vars

(* ------------------------------ helpers -------------------------------- *)

Range(q) == {q[i] : i \in 1..Len(q)}

Count(q, c) == Cardinality({i \in 1..Len(q) : q[i] = c})

\* the pipeline stage a library call belongs to (0: none of the six)
Stage(c) ==
    CASE c \in {"requests.get go-basic.obo", "requests.get goa_human.gaf.gz"} -> 1
      [] c \in {"ddot.parse_obo", "pd.read_table go.tab", "ddot.parse_gaf"} -> 2
      [] c = "Ontology.from_table" -> 3
      [] c = "collapse_ontology" -> 4
      [] c \in {"mg.querymany symbol", "mg.querymany entrezgene", "rename"} -> 5
      [] c = "to_ndex" -> 6
      [] OTHER -> 0

Staged == {i \in 1..Len(calls) : Stage(calls[i]) > 0}

Pos(c) == CHOOSE i \in 1..Len(calls) : calls[i] = c

Before(c, d) == d \in Range(calls) => (c \in Range(calls) /\ Pos(c) < Pos(d))

IsDdotCall(c) ==
    c \notin {"requests.get go-basic.obo", "requests.get goa_human.gaf.gz",
              "pd.read_table go.tab", "pd.read_table goID_2_name.tab",
              "pd.read_table goID_2_namespace.tab",
              "mg.querymany symbol", "mg.querymany entrezgene"}

DdotCalls == SelectSeq(calls, IsDdotCall)

\* the ddot calls in the order of the notebook's text
NotebookDdotCalls ==
    <<"ddot.parse_obo", "ddot.parse_gaf",
      "Ontology.from_table", "clear_node_attr", "clear_edge_attr",
      "collapse_ontology", "add_root",
      "update_node_attr", "update_node_attr",
      "copy", "to_table", "to_pickle", "to_ndex",
      "delete", "rename", "to_table", "to_pickle", "to_ndex",
      "delete", "rename", "to_table", "to_pickle", "to_ndex">>

BeforeFromTable ==
    pc \in {"c5_get_obo", "c5_parse_obo", "c5_get_gaf", "c7_read", "c8_from_table"}

BeforeCollapse == BeforeFromTable \/ pc = "c10_collapse"

\* GO:00SUPER is the only root and every other term lies below it
SingleRoot(ont) ==
    /\ get_roots(ont) = {SUPER}
    /\ ont.terms = Descendants(ont, SUPER)

\* the same, read off a written table (rows parent, child, type)
TableSingleRoot(tab) ==
    LET rel == {r \in tab : r[3] = "default"}
    IN  {r[1] : r \in rel} \ {r[2] : r \in rel} = {SUPER}

TablePath == <<"collapsed_go.uniprot", "collapsed_go.symbol", "collapsed_go.entrez">>

PicklePath == <<"collapsed_go.uniprot.pkl", "collapsed_go.symbol.pkl",
                "collapsed_go.entrez.pkl">>

Written(path) == path \in DOMAIN files

NoHit(df) == {df[i].query : i \in {j \in 1..Len(df) : df[j].notfound}}

(* ------------------------------- claims -------------------------------- *)

\* C1 (as stated): the calls of the six stages (download, parse, merge,
\* collapse, translate, upload) are made stage by stage: no call of a stage
\* is made after a call of a later stage.
C1_StagesStrictlyInOrder ==
    \A i, j \in Staged : i < j => Stage(calls[i]) <= Stage(calls[j])

\* C1 (amended): download and parse calls all precede from_table, which
\* precedes collapse_ontology, which precedes every translation and upload
\* call; the only calls out of stage order are a download after a parse
\* (the annotation file is fetched after parse_obo) and a translation after
\* an upload (the UniProt variant is uploaded before the first query); each
\* file is downloaded before it is parsed, and the Symbol and the Entrez
\* variant are each translated before they are uploaded.
C1_StageOrder ==
    /\ \A i, j \in Staged :
          i < j => \/ Stage(calls[i]) <= Stage(calls[j])
                   \/ Stage(calls[i]) = 2 /\ Stage(calls[j]) = 1
                   \/ Stage(calls[i]) = 6 /\ Stage(calls[j]) = 5
    /\ Before("requests.get go-basic.obo", "ddot.parse_obo")
    /\ Before("ddot.parse_obo", "requests.get goa_human.gaf.gz")
    /\ Before("requests.get goa_human.gaf.gz", "ddot.parse_gaf")
    /\ Before("to_ndex", "mg.querymany symbol")
    /\ Count(calls, "to_ndex") >= 2 =>
          "mg.querymany symbol" \in Range(calls) /\ Count(calls, "rename") >= 1
    /\ Count(calls, "to_ndex") >= 3 =>
          "mg.querymany entrezgene" \in Range(calls) /\ Count(calls, "rename") >= 2

C1_Witness ==
    /\ pc = "done"
    /\ Count(calls, "to_ndex") = 3
    /\ Pos("ddot.parse_obo") < Pos("requests.get goa_human.gaf.gz")
    /\ Pos("to_ndex") < Pos("mg.querymany symbol")

Variant == <<go_human_uniprot, go_human_symbol, go_human_entrez>>

\* C4: the uploads are, in order, the UniProt, the Symbol and the Entrez
\* variant, each under its own network name and each made when its table
\* file and its pickle file are already written; a complete run makes
\* exactly these three, and at its end the six output files are distinct
\* and each still holds the variant it was written for.
C4_ThreeUploads ==
    /\ Len(ndex) <= 3
    /\ \A k \in 1..Len(ndex) :
          /\ ndex[k].name = <<"Human-specific Gene Ontology, UniProt",
                              "Human-specific Gene Ontology, Symbol",
                              "Human-specific Gene Ontology, Entrez">>[k]
          /\ ndex[k].ont = Variant[k]
          /\ Written(TablePath[k]) /\ Written(PicklePath[k])
          /\ files[TablePath[k]] = to_table(Variant[k])
          /\ files[PicklePath[k]] = Variant[k]
    /\ pc = "done" =>
          /\ Len(ndex) = 3
          /\ Count(calls, "to_ndex") = 3
          /\ Cardinality(Range(TablePath) \cup Range(PicklePath)) = 6
          /\ \A k \in 1..3 :
                /\ files[TablePath[k]] = to_table(Variant[k])
                /\ files[PicklePath[k]] = Variant[k]

C4_Witness ==
    /\ pc = "done"
    /\ Len(ndex) = 3
    /\ go_human_uniprot.genes # go_human_symbol.genes
    /\ go_human_symbol.genes # go_human_entrez.genes
    /\ go_human_entrez.genes # {}

\* the statements in the order of the notebook
Order ==
    <<"c5_get_obo", "c5_parse_obo", "c5_get_gaf", "c7_read", "c8_from_table",
      "c10_collapse", "c10_add_root", "c12_update_node_attr",
      "c18_to_table", "c18_to_pickle", "c18_to_ndex",
      "c20_querymany", "c21_delete", "c21_rename", "c21_to_table",
      "c21_to_pickle", "c21_to_ndex",
      "c23_querymany", "c24_delete", "c24_rename", "c24_to_table",
      "c24_to_pickle", "c24_to_ndex", "done">>

Idx(l) == CHOOSE i \in 1..Len(Order) : Order[i] = l

\* the statement before label l has been executed
Reached(l) == Idx(pc) >= Idx(l)

EntrezStrings == <<"101", "102", "103", "104", "999">>

\* the identifiers the service returned for UniProt ID g, as they are
\* spelled in the translated ontology
SymbolHits(g) ==
    {uniprot_2_symbol_df[i].value[1] :
        i \in {j \in 1..Len(uniprot_2_symbol_df) :
                 /\ uniprot_2_symbol_df[j].query = g
                 /\ ~ uniprot_2_symbol_df[j].notfound}}

EntrezHits(g) ==
    {EntrezStrings[CHOOSE n \in 1..Len(EntrezNumbers) :
                      EntrezNumbers[n] = uniprot_2_entrezgene_df[i].value[1]] :
        i \in {j \in 1..Len(uniprot_2_entrezgene_df) :
                 /\ uniprot_2_entrezgene_df[j].query = g
                 /\ ~ uniprot_2_entrezgene_df[j].notfound}}

\* ont is go_human with the genes in keys renamed to their hits and the
\* other genes removed
Translated(ont, keys, Hits(_)) ==
    /\ ont.genes = UNION {Hits(g) : g \in go_human.genes \cap keys}
    /\ ont.gene_2_term =
          UNION {Hits(p[1]) \X {p[2]} :
                   p \in {q \in go_human.gene_2_term : q[1] \in keys}}
    /\ ont.genes \cap Range(UniProtIDs) = {}
    /\ ont.terms = go_human.terms
    /\ ont.child_2_parent = go_human.child_2_parent

TableGenes(tab) == {r[2] : r \in {q \in tab : q[3] = "gene"}}

C6_FixedCallSequence ==
    pc = "done" => DdotCalls = NotebookDdotCalls

\* C6 (amended): every complete run makes the same sequence of ddot calls
\* except for add_root, which is called, right after collapse_ontology,
\* exactly in the runs where the collapsed ontology lacks GO:00SUPER.
C6_FixedButAddRoot ==
    /\ [](pc = "done" =>
            /\ SelectSeq(DdotCalls, LAMBDA c : c # "add_root")
                 = SelectSeq(NotebookDdotCalls, LAMBDA c : c # "add_root")
            /\ \A i \in 1..Len(calls) :
                  calls[i] = "add_root" => calls[i - 1] = "collapse_ontology"
            /\ Count(calls, "add_root") <= 1)
    /\ [][pc = "c10_add_root" =>
            ("add_root" \in Range(calls') <=> SUPER \notin go_human.terms)]_vars

C6_Witness ==
    /\ pc = "done"
    /\ "add_root" \notin Range(calls)
    /\ Len(DdotCalls) = Len(NotebookDdotCalls) - 1

====
